---------------------------- MODULE Spec2Model ----------------------------
(***************************************************************************)
(* Model of src/main.py: an RFQ matching service.  At import time the      *)
(* module reads a product catalog, embeds every row through an external    *)
(* provider and builds a flat L2 index plus the slot -> row table          *)
(* catalog_map; then POST /rfq splits an RFQ text into lines, extracts a   *)
(* trailing quantity from each line, embeds the rest and reports the five  *)
(* nearest catalog rows.                                                   *)
(*                                                                         *)
(* Text is a sequence of code points (Python str), so that clean_text,     *)
(* re.split, re.search, str.strip and int() are computed as Python         *)
(* computes them.                                                          *)
(***************************************************************************)
EXTENDS Integers, Sequences, FiniteSets, TLC

VARIABLES
    pc,               \* "import" | "embedding" | "ready" | "serving" | "exited"
    exit_code,        \* -1 while the process runs, the exit status afterwards
    catalog_df,       \* rows of the catalog, [SKU, Brand, Description]
    product_texts,    \* clean_text("{Brand} {Description}") of every row
    idx,              \* rows already passed by the loop of line 56
    embeddings_list,  \* vectors of the rows the provider embedded
    valid_indices,    \* 0-based row numbers of those rows
    faiss_index,      \* vectors held by the IndexFlatL2, slot s at s + 1
    catalog_map,      \* slot -> catalog row
    provider_log,     \* what the provider answered for each catalog row
    inbox,            \* the POST /rfq request in flight
    sent,             \* how the client composed that request (items, separators)
    last              \* the exchange completed for that request

vars == <<pc, exit_code, catalog_df, product_texts, idx, embeddings_list,
          valid_indices, faiss_index, catalog_map, provider_log, inbox, sent, last>>

-----------------------------------------------------------------------------
(* Bounds of the model *)

NRows == 6
MaxTokens == 3
MaxItems == 2

-----------------------------------------------------------------------------
(* Characters and text *)

Comma == 44
Newline == 10
Blank == 32
AsciiMax == 127
MonthsPerYear == 12

\* one neighbour too many
TopKSix == 5 + 1

\* line 103: faiss_index.search(..., 5)
TopK == 5

\* str.isspace / \s on the ASCII range (clean_text leaves nothing else)
IsSpace(c) == c \in {9, 10, 11, 12, 13, 28, 29, 30, 31, 32}

\* \d on the ASCII range
IsDigit(c) == c >= 48 /\ c <= 57

SetMin(S) == CHOOSE m \in S : \A o \in S : m <= o
SetMax(S) == CHOOSE m \in S : \A o \in S : m >= o

\* str.strip()
Strip(s) ==
    LET solid == {i \in 1..Len(s) : ~IsSpace(s[i])}
    IN  IF solid = {} THEN <<>> ELSE SubSeq(s, SetMin(solid), SetMax(solid))

\* re.sub(r'[^\x00-\x7F]+', ' ', text): every maximal run of non-ASCII
\* characters becomes one blank
SubNonAscii(s) ==
    LET F[i \in 0..Len(s)] ==
            IF i = 0 THEN <<>>
            ELSE IF s[i] <= AsciiMax THEN Append(F[i - 1], s[i])
            ELSE IF i > 1 /\ s[i - 1] > AsciiMax THEN F[i - 1]
            ELSE Append(F[i - 1], Blank)
    IN  F[Len(s)]

clean_text(text) == Strip(SubNonAscii(text))

\* first position >= i that holds no whitespace (Len(s) + 1 when none)
SkipSpace(s, i) ==
    SetMin({j \in i..(Len(s) + 1) : j = Len(s) + 1 \/ ~IsSpace(s[j])})

\* re.split(r'[,\n]\s*', s)
RECURSIVE SplitFrom(_, _, _, _)
SplitFrom(s, i, cur, acc) ==
    IF i > Len(s) THEN Append(acc, cur)
    ELSE IF s[i] \in {Comma, Newline}
         THEN SplitFrom(s, SkipSpace(s, i + 1), <<>>, Append(acc, cur))
         ELSE SplitFrom(s, i + 1, Append(cur, s[i]), acc)

ReSplit(s) == SplitFrom(s, 1, <<>>, <<>>)

\* text.replace("\n", " ")
ReplaceNewlines(s) == [i \in 1..Len(s) |-> IF s[i] = Newline THEN Blank ELSE s[i]]

\* int(digits)
RECURSIVE IntOf(_)
IntOf(d) ==
    IF d = <<>> THEN 0
    ELSE 10 * IntOf(SubSeq(d, 1, Len(d) - 1)) + (d[Len(d)] - 48)

Annually == <<97, 110, 110, 117, 97, 108, 108, 121>>
Monthly == <<109, 111, 110, 116, 104, 108, 121>>
NoWord == <<>>

\* the literal w stands in s at position p
LiteralAt(s, p, w) ==
    /\ p + Len(w) - 1 <= Len(s)
    /\ \A k \in 1..Len(w) : s[p + k - 1] = w[k]

\* '$' before position p: the end of the text, or just before a final newline
AtEnd(s, p) == p = Len(s) + 1 \/ (p = Len(s) /\ s[p] = Newline)

\* first position >= i that holds no digit (Len(s) + 1 when none)
SkipDigits(s, i) ==
    SetMin({j \in i..(Len(s) + 1) : j = Len(s) + 1 \/ ~IsDigit(s[j])})

\* (\d+)\s*(annually|monthly)?$ tried at start position i: the matches the
\* backtracking search can end in, as <<end of digits, end of blanks, word>>
\* (\d+ may give digits back, \s* may give blanks back)
MatchesAt(s, i) ==
    IF ~IsDigit(s[i]) THEN {}
    ELSE {m \in UNION {{<<j, k, w>> : k \in j..SkipSpace(s, j), w \in {Annually, Monthly, NoWord}} :
                        j \in (i + 1)..SkipDigits(s, i)} :
            /\ LiteralAt(s, m[2], m[3])
            /\ AtEnd(s, m[2] + Len(m[3]))}

\* the alternation tries 'annually', then 'monthly', then nothing
WordOrder(w) == IF w = Annually THEN 1 ELSE IF w = Monthly THEN 2 ELSE 3

\* greedy \d+, greedy \s*, then the alternation in order
Preferred(a, b) ==
    \/ a[1] > b[1]
    \/ a[1] = b[1] /\ a[2] > b[2]
    \/ a[1] = b[1] /\ a[2] = b[2] /\ WordOrder(a[3]) <= WordOrder(b[3])

NoMatch == [found |-> FALSE, start |-> 0, group1 |-> <<>>, group2 |-> NoWord]

\* the match object of the preferred match among those found at start i
MatchObject(s, i, found) ==
    LET m == CHOOSE a \in found : \A b \in found : Preferred(a, b)
    IN  [found |-> TRUE, start |-> i, group1 |-> SubSeq(s, i, m[1] - 1), group2 |-> m[3]]

\* the search tries the start positions from i on, left to right
RECURSIVE SearchFrom(_, _)
SearchFrom(s, i) ==
    IF i > Len(s) THEN NoMatch
    ELSE IF MatchesAt(s, i) # {} THEN MatchObject(s, i, MatchesAt(s, i))
    ELSE SearchFrom(s, i + 1)

\* re.search(r'(\d+)\s*(annually|monthly)?$', s)
QuantitySearch(s) == SearchFrom(s, 1)

-----------------------------------------------------------------------------
(* Quantity extraction, lines 89-98 *)

\* quantity set once, before the loop
InitialQuantityCarried(prev) == prev

\* quantity = 1 at the top of every iteration (line 90); prev is the quantity
\* the previous iteration ended with
InitialQuantity(prev) == 1

\* the annual quantity kept as it is
NormalizeQuantityKept(n, word) == n

\* quantity = quantity // 12 under 'annually' (lines 95-97)
NormalizeQuantity(n, word) == IF word = Annually THEN n \div MonthsPerYear ELSE n

\* lines 94-98: the outcome of the search decides quantity and description
ExtractWith(stripped, match, prev) ==
    IF match.found
    THEN [quantity |-> NormalizeQuantity(IntOf(match.group1), match.group2),
          item_description |-> Strip(SubSeq(stripped, 1, match.start - 1))]
    ELSE [quantity |-> InitialQuantity(prev), item_description |-> stripped]

\* lines 91-93
ExtractStripped(stripped, prev) == ExtractWith(stripped, QuantitySearch(stripped), prev)

\* lines 90-98 for one line of the RFQ
ExtractQuantity(line, prev) == ExtractStripped(Strip(line), prev)

-----------------------------------------------------------------------------
(* The embedding provider and the index *)

\* What openai.Embedding.create can do for one text: raise, or answer a vector.
ProviderError == [ok |-> FALSE, vec |-> <<>>]
Vectors == {<<0, 0>>, <<1, 2>>}
ProviderAnswers == {ProviderError} \cup {[ok |-> TRUE, vec |-> v] : v \in Vectors}

\* get_embedding: the text sent to the provider and the value returned
\* (ok = FALSE is None)
get_embedding(text, answer) ==
    [sent |-> Strip(ReplaceNewlines(text)),
     emb |-> IF answer.ok THEN answer ELSE ProviderError]

\* squared Euclidean distance, the metric of IndexFlatL2
RECURSIVE SquaredL2(_, _)
SquaredL2(a, b) ==
    IF a = <<>> THEN 0
    ELSE (a[1] - b[1]) * (a[1] - b[1]) + SquaredL2(Tail(a), Tail(b))

\* The order in which the search of an equal distance returns two slots is
\* not fixed by the library: both orders are outcomes.
TieOrders == {"low", "high"}

\* slot t is returned before slot s; dist[s + 1] is the distance of slot s
Nearer(dist, tie, t, s) ==
    \/ dist[t + 1] < dist[s + 1]
    \/ dist[t + 1] = dist[s + 1] /\ (IF tie = "low" THEN t < s ELSE t > s)

\* the slots by ascending distance
RECURSIVE NearestFirst(_, _, _)
NearestFirst(dist, tie, left) ==
    IF left = {} THEN <<>>
    ELSE LET s == CHOOSE c \in left : \A t \in left \ {c} : Nearer(dist, tie, c, t)
         IN  <<s>> \o NearestFirst(dist, tie, left \ {s})

\* the first k of the ranking, padded with -1
TopOf(ranking, k) ==
    [r \in 1..k |-> IF r <= Len(ranking) THEN ranking[r] ELSE -1]

\* faiss_index.search(q, k): the k nearest slots by ascending distance, padded
\* with -1 when the index holds fewer than k vectors
IndexSearch(index, q, k, tie) ==
    TopOf(NearestFirst([s \in 1..Len(index) |-> SquaredL2(q, index[s])], tie,
                       0..(Len(index) - 1)), k)

-----------------------------------------------------------------------------
(* The catalog *)

\* The rows read from the CSV after fillna(""): row 2 has no brand, row 3 a
\* description with non-ASCII characters.
CatalogRow(i) ==
    [SKU |-> <<83, 48 + i>>,
     Brand |-> IF i = 2 THEN <<>> ELSE <<66, 48 + i>>,
     Description |-> IF i = 3 THEN <<80, 233, 233, 112>> ELSE <<68, 48 + i>>]

Catalog == [i \in 1..NRows |-> CatalogRow(i)]

\* lines 48-51
ProductText(row) == clean_text(row.Brand \o <<Blank>> \o row.Description)

\* the slot taken for the row number
MappedRowBySlot(df, valid, i) == df[i + 1]

\* line 70: the row the table holds for slot i
MappedRow(df, valid, i) == df[valid[i + 1] + 1]

\* lines 69-71
BuildCatalogMap(df, valid) == [i \in 0..(Len(valid) - 1) |-> MappedRow(df, valid, i)]

\* line 62: is there anything to index
NothingEmbedded(list) == list = <<>>

-----------------------------------------------------------------------------
(* POST /rfq, lines 78-127 *)

\* request.get_json(): no JSON at all (None), or an object as key/value pairs
NoJson == [kind |-> "null", obj |-> {}]
JsonObject(pairs) == [kind |-> "object", obj |-> pairs]

HasKey(data, key) == data.kind = "object" /\ \E p \in data.obj : p[1] = key
ValueOf(data, key) == (CHOOSE p \in data.obj : p[1] = key)[2]

\* only 'not data'
InvalidRequestEmptyOnly(data) ==
    \/ data.kind = "null"
    \/ data.obj = {}

\* line 81: not data or 'rfq' not in data
InvalidRequest(data) ==
    \/ data.kind = "null"
    \/ data.obj = {}
    \/ ~HasKey(data, "rfq")

\* the whole block taken as one line
RfqLinesWhole(rfq_input) == <<clean_text(rfq_input)>>

\* line 85
RfqLines(rfq_input) == ReSplit(clean_text(rfq_input))

\* best_match = None
None == [none |-> TRUE]

\* the 1-based rank compared with 0-based enumerate
IsBestSecond(rank) == rank = 1

\* line 117: the entry kept as best_match
IsBest(rank) == rank = 0

\* lines 110-116
MatchEntry(rank, matched_row, quantity) ==
    [rank |-> rank + 1,
     product_id |-> matched_row.SKU,
     product_name |-> matched_row.Description,
     quantity |-> quantity]

\* lines 104-119: the loop over enumerate(indices[0]), from rank on
RECURSIVE MatchEntries(_, _, _, _, _)
MatchEntries(indices, quantity, rank, top_matches, best_match) ==
    IF rank >= Len(indices)
    THEN [top_matches |-> top_matches, best_match |-> best_match]
    ELSE IF indices[rank + 1] < 0
    THEN MatchEntries(indices, quantity, rank + 1, top_matches, best_match)
    ELSE MatchEntries(indices, quantity, rank + 1,
                      Append(top_matches,
                             MatchEntry(rank, catalog_map[indices[rank + 1]], quantity)),
                      IF IsBest(rank)
                      THEN MatchEntry(rank, catalog_map[indices[rank + 1]], quantity)
                      ELSE best_match)

\* 'break' in the place of 'continue'
AfterFailureBreak(i, n) == n + 1

\* lines 101-102: 'continue' goes on with the line after line i of n
AfterFailure(i, n) == i + 1

\* the locals of one iteration of the loop over rfq_lines
LineTrace(line, ex, got, indices) ==
    [line |-> line,
     item_description |-> ex.item_description,
     quantity |-> ex.quantity,
     sent |-> got.sent,
     emb |-> got.emb,
     indices |-> indices]

\* lines 121-125
Report(line, found) ==
    [original_string |-> line,
     best_match |-> found.best_match,
     top_5_matches |-> found.top_matches]

\* lines 88-125: the loop over rfq_lines from line i on; oracle[i] is what the
\* provider and the index search do for line i.  matched_products collects the
\* reports; trace keeps the locals of every iteration.
RECURSIVE MatchLines(_, _, _, _, _)
RECURSIVE Embedded(_, _, _, _, _)
RECURSIVE Searched(_, _, _, _, _, _)

MatchLines(rfq_lines, oracle, i, prev, acc) ==
    IF i > Len(rfq_lines) THEN acc
    ELSE Embedded(rfq_lines, oracle, i, ExtractQuantity(rfq_lines[i], prev), acc)

\* line 100
Embedded(rfq_lines, oracle, i, ex, acc) ==
    Searched(rfq_lines, oracle, i, ex,
             get_embedding(ex.item_description, oracle[i].answer), acc)

\* lines 101-125
Searched(rfq_lines, oracle, i, ex, got, acc) ==
    IF ~got.emb.ok
    THEN MatchLines(rfq_lines, oracle, AfterFailure(i, Len(rfq_lines)), ex.quantity,
                    [acc EXCEPT !.trace = Append(@, LineTrace(rfq_lines[i], ex, got, <<>>))])
    ELSE LET indices == IndexSearch(faiss_index, got.emb.vec, TopK, oracle[i].tie)
         IN  MatchLines(rfq_lines, oracle, i + 1, ex.quantity,
                 [matched_products |->
                      Append(acc.matched_products,
                             Report(rfq_lines[i],
                                    MatchEntries(indices, ex.quantity, 0, <<>>, None))),
                  trace |-> Append(acc.trace, LineTrace(rfq_lines[i], ex, got, indices))])

\* the exchange: the request, what the environment did, and the response
Exchange(data, oracle, status, error, reports, trace) ==
    [data |-> data, oracle |-> oracle, status |-> status, error |-> error,
     reports |-> reports, trace |-> trace,
     embed_calls |-> Len(trace),
     searches |-> Cardinality({i \in 1..Len(trace) : trace[i].emb.ok})]

\* lines 84-127
Matched(data, oracle, done) ==
    Exchange(data, oracle, 200, "", done.matched_products, done.trace)

\* rfq_search
rfq_search(data, oracle) ==
    IF InvalidRequest(data)
    THEN Exchange(data, oracle, 400, "Invalid request. Provide 'rfq' field in JSON.", <<>>, <<>>)
    ELSE IF ~HasKey(data, "rfq")
    THEN Exchange(data, oracle, 500, "KeyError", <<>>, <<>>)   \* data['rfq'] raises
    ELSE Matched(data, oracle,
                 MatchLines(RfqLines(ValueOf(data, "rfq")), oracle, 1, 1,
                            [matched_products |-> <<>>, trace |-> <<>>]))

\* how many provider / search outcomes a request can consume
LineCount(data) ==
    IF HasKey(data, "rfq") THEN Len(RfqLines(ValueOf(data, "rfq"))) ELSE 0

-----------------------------------------------------------------------------
(* State machine *)

NoRequest == [kind |-> "none", obj |-> {}]
NoExchange == [none |-> TRUE]
NotSent == [items |-> <<>>, seps |-> <<>>]

Init ==
    /\ pc = "import"
    /\ exit_code = -1
    /\ catalog_df = <<>>
    /\ product_texts = <<>>
    /\ idx = 0
    /\ embeddings_list = <<>>
    /\ valid_indices = <<>>
    /\ faiss_index = <<>>
    /\ catalog_map = <<>>
    /\ provider_log = <<>>
    /\ inbox = NoRequest
    /\ sent = NotSent
    /\ last = NoExchange

\* the handler reports the exception and the module goes on
ExitSkipped ==
    /\ pc' = "ready"
    /\ UNCHANGED exit_code

\* lines 72-74: any exception of the load ends the process with status 1
Exit ==
    /\ pc' = "exited"
    /\ exit_code' = 1

\* lines 45-54: read the CSV (it may be unreadable or lack a column)
LoadCatalog ==
    /\ pc = "import"
    /\ \E readable \in BOOLEAN :
        IF readable
        THEN /\ catalog_df' = Catalog
             /\ product_texts' = [i \in 1..Len(Catalog) |-> ProductText(Catalog[i])]
             /\ pc' = "embedding"
             /\ UNCHANGED exit_code
        ELSE /\ Exit
             /\ UNCHANGED <<catalog_df, product_texts>>
    /\ UNCHANGED <<idx, embeddings_list, valid_indices, faiss_index, catalog_map,
                   provider_log, inbox, sent, last>>

\* lines 56-60: one iteration of the embedding loop
EmbedRow ==
    /\ pc = "embedding"
    /\ idx < Len(product_texts)
    /\ \E answer \in ProviderAnswers :
        LET emb == get_embedding(product_texts[idx + 1], answer).emb
        IN  /\ provider_log' = Append(provider_log, answer)
            /\ IF emb.ok
               THEN /\ embeddings_list' = Append(embeddings_list, emb.vec)
                    /\ valid_indices' = Append(valid_indices, idx)
               ELSE UNCHANGED <<embeddings_list, valid_indices>>
    /\ idx' = idx + 1
    /\ UNCHANGED <<pc, exit_code, catalog_df, product_texts, faiss_index, catalog_map,
                   inbox, sent, last>>

\* lines 62-71: refuse an empty index, else build the index and the table
FinishBuild ==
    /\ pc = "embedding"
    /\ idx = Len(product_texts)
    /\ IF NothingEmbedded(embeddings_list)
       THEN /\ Exit
            /\ UNCHANGED <<faiss_index, catalog_map>>
       ELSE /\ faiss_index' = embeddings_list
            /\ catalog_map' = BuildCatalogMap(catalog_df, valid_indices)
            /\ pc' = "ready"
            /\ UNCHANGED exit_code
    /\ UNCHANGED <<catalog_df, product_texts, idx, embeddings_list, valid_indices,
                   provider_log, inbox, sent, last>>

\* lines 76-78 and 129-130: the route exists and the server listens
AppRun ==
    /\ pc = "ready"
    /\ pc' = "serving"
    /\ UNCHANGED <<exit_code, catalog_df, product_texts, idx, embeddings_list,
                   valid_indices, faiss_index, catalog_map, provider_log, inbox, sent, last>>

\* a client posts the request composed as c while the server listens
Post(c) ==
    /\ pc = "serving"
    /\ inbox = NoRequest
    /\ last = NoExchange
    /\ inbox' = c.data
    /\ sent' = [items |-> c.items, seps |-> c.seps]
    /\ UNCHANGED last
    /\ UNCHANGED <<pc, exit_code, catalog_df, product_texts, idx, embeddings_list,
                   valid_indices, faiss_index, catalog_map, provider_log>>

\* the client takes the response; the exchange is over
Receive ==
    /\ last # NoExchange
    /\ last' = NoExchange
    /\ sent' = NotSent
    /\ UNCHANGED <<pc, exit_code, catalog_df, product_texts, idx, embeddings_list,
                   valid_indices, faiss_index, catalog_map, provider_log, inbox>>

\* the request in flight is handled by rfq_search
Handle(answers, ties) ==
    /\ pc = "serving"
    /\ inbox # NoRequest
    /\ \E oracle \in [1..LineCount(inbox) -> [answer : answers, tie : ties]] :
        last' = rfq_search(inbox, oracle)
    /\ inbox' = NoRequest
    /\ UNCHANGED <<pc, exit_code, catalog_df, product_texts, idx, embeddings_list,
                   valid_indices, faiss_index, catalog_map, provider_log, sent>>

-----------------------------------------------------------------------------
(* Requests *)

\* the RFQ text a client composes from item texts and the separators between them
RECURSIVE Join(_, _)
Join(items, seps) ==
    IF items = <<>> THEN <<>>
    ELSE IF Len(items) = 1 THEN items[1]
    ELSE items[1] \o seps[1] \o Join(Tail(items), Tail(seps))

Compose(items, seps) ==
    [data |-> JsonObject({<<"rfq", Join(items, seps)>>}), items |-> items, seps |-> seps]

Uncomposed(data) == [data |-> data, items |-> <<>>, seps |-> <<>>]

ItemA10 == <<73, 116, 101, 109, 32, 65, 32, 49, 48>>
ItemB5Annually == <<73, 116, 101, 109, 32, 66, 32, 53, 32, 97, 110, 110, 117, 97, 108, 108, 121>>
WidgetA24Monthly == <<87, 105, 100, 103, 101, 116, 32, 65, 32, 50, 52, 32, 109, 111, 110, 116, 104, 108, 121>>
WidgetB24Annually == <<87, 105, 100, 103, 101, 116, 32, 66, 32, 50, 52, 32, 97, 110, 110, 117, 97, 108, 108, 121>>
WidgetC == <<87, 105, 100, 103, 101, 116, 32, 67>>

\* the requests posted to the service built from the whole catalog
Requests ==
    { Uncomposed(NoJson),
      Uncomposed(JsonObject({})),
      Uncomposed(JsonObject({<<"item", WidgetC>>})),
      Compose(<<WidgetA24Monthly, WidgetC>>, << <<Newline>> >>),
      Compose(<<WidgetB24Annually>>, <<>>) }

Next ==
    \/ LoadCatalog
    \/ EmbedRow
    \/ FinishBuild
    \/ AppRun
    \/ \E c \in Requests : Post(c)
    \/ Handle(ProviderAnswers, TieOrders)
    \/ Receive

Spec == Init /\ [][Next]_vars

-----------------------------------------------------------------------------
(* The text pipeline on generated RFQ texts, against a built service *)

\* pieces of text: a letter, a blank, two integers, the cadence words, a
\* capitalised cadence word, a non-ASCII letter
Tokens ==
    { <<65>>, <<Blank>>, <<53>>, <<50, 52>>, Monthly, Annually,
      <<77, 111, 110, 116, 104, 108, 121>>, <<233>> }

RECURSIVE TokenTexts(_)
TokenTexts(n) ==
    IF n = 0 THEN {<<>>}
    ELSE LET shorter == TokenTexts(n - 1)
         IN  shorter \cup {x \o t : x \in shorter, t \in Tokens}

LineTexts == TokenTexts(MaxTokens)

\* item texts and separators of composed multi-line RFQs
ItemTexts ==
    { <<65>>, <<65, 32, 53>>, <<50, 52, 32>> \o Annually, <<233>>, <<233, 53>>, <<66, 32>> }

Separators ==
    { <<Comma>>, <<Comma, Blank>>, <<Blank, Comma, Blank>>, <<Newline>> }

Composed ==
    UNION {{Compose(items, seps) : items \in [1..n -> ItemTexts],
                                   seps \in [1..(n - 1) -> Separators]} :
           n \in 1..MaxItems}

\* the provider answers during the text runs: an error, or one vector
TextAnswers == {ProviderError, [ok |-> TRUE, vec |-> <<0, 0>>]}

\* the service after a build in which the provider embedded rows 1 and 2 only
TextInit ==
    /\ pc = "serving"
    /\ exit_code = -1
    /\ catalog_df = Catalog
    /\ product_texts = [i \in 1..Len(Catalog) |-> ProductText(Catalog[i])]
    /\ idx = Len(Catalog)
    /\ provider_log = [i \in 1..Len(Catalog) |->
                          IF i = 1 THEN [ok |-> TRUE, vec |-> <<0, 0>>]
                          ELSE IF i = 2 THEN [ok |-> TRUE, vec |-> <<1, 2>>]
                          ELSE ProviderError]
    /\ embeddings_list = << <<0, 0>>, <<1, 2>> >>
    /\ valid_indices = <<0, 1>>
    /\ faiss_index = embeddings_list
    /\ catalog_map = BuildCatalogMap(catalog_df, valid_indices)
    /\ inbox = NoRequest
    /\ sent = NotSent
    /\ last = NoExchange

\* the RFQ texts the documentation of the service gives as examples
Examples ==
    { Compose(<<ItemA10, ItemB5Annually>>, << <<Comma, Blank>> >>),
      Compose(<<WidgetA24Monthly>>, <<>>),
      Compose(<<WidgetB24Annually>>, <<>>),
      Compose(<<WidgetC>>, <<>>) }

TextNext ==
    \/ \E t \in LineTexts : Post(Compose(<<t>>, <<>>))
    \/ \E c \in Composed \cup Examples : Post(c)
    \/ Handle(TextAnswers, {"low"})
    \/ Receive

SpecText == TextInit /\ [][TextNext]_vars

-----------------------------------------------------------------------------
(* Vocabulary of the properties *)

\* the n-th smallest member of a set of numbers
NthOf(S, n) == CHOOSE r \in S : Cardinality({j \in S : j <= r}) = n

\* catalog rows (1-based) the provider embedded during the build
EmbeddedRows == {r \in 1..Len(provider_log) : provider_log[r].ok}

\* an exchange took place and the body carried the key 'rfq'
Handled == last # NoExchange
CarriesRfq == Handled /\ \E p \in last.data.obj : p[1] = "rfq"
Answered200 == CarriesRfq /\ last.status = 200

\* lines of the handled request for which the provider answered a vector
AnsweredLines == {i \in DOMAIN last.oracle : last.oracle[i].answer.ok}

\* the locals of the iteration that produced report n
TraceOfReport(n) ==
    last.trace[NthOf({i \in 1..Len(last.trace) : last.trace[i].emb.ok}, n)]

\* squared Euclidean distance of two plane vectors
PlaneDistance(a, b) == (a[1] - b[1]) * (a[1] - b[1]) + (a[2] - b[2]) * (a[2] - b[2])

\* value of the decimal digits s[a..b]
RECURSIVE Decimal(_, _, _, _)
Decimal(s, a, b, value) ==
    IF a > b THEN value ELSE Decimal(s, a + 1, b, 10 * value + (s[a] - 48))

\* The ways a trimmed line s ends with an integer s[a..b] and then a cadence
\* word w (or nothing): the integer is a whole run of digits, only whitespace
\* lies between the integer and the word, and the word ends the line.  With
\* gap required, at least one whitespace separates the integer from the word.
QuantityEndings(s, gapRequired) ==
    {e \in (1..Len(s)) \X (1..Len(s)) \X {Annually, Monthly, NoWord} :
        LET a == e[1]
            b == e[2]
            w == e[3]
            c == Len(s) - Len(w) + 1
        IN  /\ a <= b
            /\ \A d \in a..b : IsDigit(s[d])
            /\ a = 1 \/ ~IsDigit(s[a - 1])
            /\ c > b
            /\ \A g \in (b + 1)..(c - 1) : IsSpace(s[g])
            /\ \A k \in 1..Len(w) : s[c + k - 1] = w[k]
            /\ (gapRequired /\ w # NoWord) => c > b + 1}

\* what the extraction of a line is stated to give
StatedExtraction(line, gapRequired) ==
    LET s == Strip(line)
        E == QuantityEndings(s, gapRequired)
    IN  IF E = {} THEN [quantity |-> 1, item_description |-> s]
        ELSE LET e == CHOOSE x \in E : TRUE
                 n == Decimal(s, e[1], e[2], 0)
             IN  [quantity |-> IF e[3] = Annually THEN n \div 12 ELSE n,
                  item_description |-> Strip(SubSeq(s, 1, e[1] - 1))]

ExtractionAsStated(gapRequired) ==
    Handled =>
        \A i \in 1..Len(last.trace) :
            LET t == last.trace[i]
                x == StatedExtraction(t.line, gapRequired)
            IN  /\ t.quantity = x.quantity
                /\ t.item_description = x.item_description
                /\ t.line = WidgetA24Monthly =>
                       t.quantity = 24 /\ t.item_description = <<87, 105, 100, 103, 101, 116, 32, 65>>
                /\ t.line = WidgetB24Annually => t.quantity = 2
                /\ t.line = WidgetC => t.quantity = 1 /\ t.item_description = WidgetC

\* an item text with at least one ASCII character that is not whitespace
HasAsciiText(item) == \E k \in 1..Len(item) : item[k] <= 127 /\ ~IsSpace(item[k])

SplitAsStated ==
    /\ Len(last.trace) = Len(sent.items)
    /\ \A i \in 1..Len(sent.items) :
        /\ Strip(last.trace[i].line) = clean_text(sent.items[i])
        /\ last.trace[i].quantity = StatedExtraction(clean_text(sent.items[i]), FALSE).quantity
    /\ (sent.items = <<ItemA10, ItemB5Annually>>) =>
           /\ last.trace[1].quantity = 10
           /\ last.trace[2].quantity = 0

-----------------------------------------------------------------------------
(* Properties *)

\* C1: once the build has completed, with M >= 1 of the N catalog rows
\* embedded, the index holds exactly M vectors, catalog_map has domain
\* 0..M-1, and slot i holds the i-th embedded row in row order with the
\* vector the provider gave for it; a row that failed is in neither.
C1_IndexBuild ==
    pc \in {"ready", "serving"} =>
        LET M == Cardinality(EmbeddedRows)
        IN  /\ Len(provider_log) = Len(Catalog)
            /\ M >= 1 /\ M <= Len(Catalog)
            /\ Len(faiss_index) = M
            /\ DOMAIN catalog_map = 0..(M - 1)
            /\ \A i \in 0..(M - 1) :
                /\ catalog_map[i] = Catalog[NthOf(EmbeddedRows, i + 1)]
                /\ faiss_index[i + 1] = provider_log[NthOf(EmbeddedRows, i + 1)].vec
            /\ \A r \in (1..Len(Catalog)) \ EmbeddedRows :
                \A i \in 0..(M - 1) : catalog_map[i] # Catalog[r]

\* a build in which the first row failed and a later row was embedded
C1_Witness ==
    /\ pc = "serving"
    /\ ~provider_log[1].ok
    /\ provider_log[2].ok
    /\ ~provider_log[3].ok
    /\ Cardinality(EmbeddedRows) >= 2

\* the index and the table stand, built from the whole catalog
Built ==
    /\ catalog_df = Catalog
    /\ idx = Len(Catalog)
    /\ Len(faiss_index) >= 1
    /\ DOMAIN catalog_map = 0..(Len(faiss_index) - 1)

\* C2: a request is posted, handled or answered only after the index has
\* been built with at least one vector; an unreadable catalog or a build with
\* no embedded row ends the process with status 1, and an ended process never
\* serves.
C2_StartupGating ==
    /\ [](/\ (pc \in {"ready", "serving"} \/ inbox # NoRequest \/ Handled) => Built
          /\ pc = "exited" => (exit_code = 1 /\ inbox = NoRequest /\ ~Handled /\ faiss_index = <<>>)
          /\ pc # "exited" => exit_code = -1)
    /\ [][/\ pc = "exited" => pc' = "exited"
          /\ (pc = "import" /\ catalog_df' # Catalog) => (pc' = "exited" /\ exit_code' = 1)
          /\ (pc = "embedding" /\ idx = Len(product_texts) /\ EmbeddedRows = {})
                => (pc' = "exited" /\ exit_code' = 1)]_vars

\* every row was tried, none was embedded, and the process has ended
C2_Witness ==
    /\ pc = "exited"
    /\ exit_code = 1
    /\ Len(provider_log) = Len(Catalog)
    /\ EmbeddedRows = {}

\* C3: a request whose body lacks the key 'rfq' is answered 400 with an error
\* object, with no call of the provider and no search of the index.
C3_Validation ==
    (Handled /\ ~CarriesRfq) =>
        /\ last.status = 400
        /\ last.error # ""
        /\ last.reports = <<>>
        /\ last.embed_calls = 0
        /\ last.searches = 0

\* a body that is an object with another key was answered
C3_Witness ==
    /\ Handled
    /\ last.data = JsonObject({<<"item", WidgetC>>})
    /\ last.status = 400

\* C4: the reports of a request are exactly its lines for which the provider
\* answered, one each, in the order of the lines, and the response is 200
\* whatever lines failed.
C4_FailureAbsorbed ==
    CarriesRfq =>
        LET lines == RfqLines(ValueOf(last.data, "rfq"))
        IN  /\ last.status = 200
            /\ DOMAIN last.oracle = 1..Len(lines)
            /\ Len(last.reports) = Cardinality(AnsweredLines)
            /\ \A n \in 1..Len(last.reports) :
                last.reports[n].original_string = lines[NthOf(AnsweredLines, n)]

\* the first of two lines failed and the second was still reported
C4_Witness ==
    /\ CarriesRfq
    /\ Len(last.oracle) = 2
    /\ ~last.oracle[1].answer.ok
    /\ last.oracle[2].answer.ok
    /\ Len(last.reports) = 1
    /\ last.reports[1].original_string = WidgetC

\* C5 as stated: a line that ends with an integer, optionally followed by
\* whitespace and 'monthly' or 'annually', gives that integer (divided by 12
\* under 'annually') and the trimmed text before it; any other line gives 1
\* and the trimmed line.
C5_ExtractionGapRequired == ExtractionAsStated(TRUE)

\* C5 amended: the same, the whitespace between the integer and the cadence
\* word being optional ('24annually' gives 2).
C5_Extraction == ExtractionAsStated(FALSE)

\* a line whose integer touches the cadence word
C5_Witness ==
    /\ Handled
    /\ Len(last.trace) = 1
    /\ last.trace[1].line = <<65, 50, 52>> \o Annually
    /\ last.trace[1].quantity = 2
    /\ last.trace[1].item_description = <<65>>

C7_Ranking ==
    Answered200 =>
        \A n \in 1..Len(last.reports) :
            LET top == last.reports[n].top_5_matches
                t == TraceOfReport(n)
                slot(p) == t.indices[top[p].rank]
                dist(p) == PlaneDistance(t.emb.vec, faiss_index[slot(p) + 1])
            IN  /\ Len(top) <= 5
                /\ Len(top) = Cardinality({r \in 1..Len(t.indices) : t.indices[r] >= 0})
                /\ \A p \in 1..Len(top) :
                    /\ top[p].rank \in 1..Len(t.indices)
                    /\ slot(p) >= 0
                    /\ top[p].product_id = catalog_map[slot(p)].SKU
                    /\ top[p].product_name = catalog_map[slot(p)].Description
                /\ \A p \in 1..(Len(top) - 1) :
                    /\ top[p].rank < top[p + 1].rank
                    /\ dist(p) <= dist(p + 1)
                /\ top # <<>> =>
                    \A v \in 1..Len(faiss_index) :
                        dist(1) <= PlaneDistance(t.emb.vec, faiss_index[v])
                /\ (\E v \in 1..Len(faiss_index) : faiss_index[v] = t.emb.vec) =>
                    /\ top # <<>>
                    /\ top[1].rank = 1
                    /\ dist(1) = 0

\* an index of more than five vectors, searched for one of its vectors, gave
\* five entries at two different distances
C7_Witness ==
    /\ Answered200
    /\ Len(faiss_index) > 5
    /\ Len(last.reports) >= 1
    /\ Len(last.reports[1].top_5_matches) = 5
    /\ \E v \in 1..Len(faiss_index) : faiss_index[v] = TraceOfReport(1).emb.vec
    /\ PlaneDistance(TraceOfReport(1).emb.vec,
                     faiss_index[TraceOfReport(1).indices[5] + 1]) > 0

\* C8: every entry of a report, best_match included, carries the quantity
\* extracted from the report's own line (1 when the line names none).
C8_QuantitySource ==
    Answered200 =>
        \A n \in 1..Len(last.reports) :
            LET r == last.reports[n]
                own == StatedExtraction(r.original_string, FALSE).quantity
            IN  /\ \A p \in 1..Len(r.top_5_matches) : r.top_5_matches[p].quantity = own
                /\ r.best_match # None => r.best_match.quantity = own

\* two reports of one request carry 24 and 1
C8_Witness ==
    /\ Answered200
    /\ Len(last.reports) = 2
    /\ last.reports[1].best_match # None
    /\ last.reports[1].best_match.quantity = 24
    /\ last.reports[2].best_match # None
    /\ last.reports[2].best_match.quantity = 1

\* C9: the original_string of every report is the corresponding line of the
\* RFQ as submitted, split on the separators and otherwise untouched.
C9_OriginalPreserved ==
    Answered200 =>
        LET submitted == ReSplit(ValueOf(last.data, "rfq"))
        IN  /\ Len(submitted) = Len(last.trace)
            /\ \A n \in 1..Len(last.reports) :
                last.reports[n].original_string = submitted[NthOf(AnsweredLines, n)]

\* C10: best_match is None exactly when top_5_matches is empty; otherwise it
\* is the first entry of top_5_matches and has rank 1.
C10_BestMatch ==
    Answered200 =>
        \A n \in 1..Len(last.reports) :
            LET r == last.reports[n]
            IN  /\ (r.best_match = None) <=> (r.top_5_matches = <<>>)
                /\ r.top_5_matches # <<>> =>
                    /\ r.best_match = r.top_5_matches[1]
                    /\ r.best_match.rank = 1

\* a search of an index of fewer than five vectors, padded with -1
C10_Witness ==
    /\ Answered200
    /\ Len(faiss_index) < 5
    /\ Len(last.reports) >= 1
    /\ TraceOfReport(1).indices[5] = -1
    /\ last.reports[1].best_match # None
    /\ Len(last.reports[1].top_5_matches) = Len(faiss_index)

=============================================================================
